---- MODULE Spec2Model ----
(***************************************************************************)
(* Model of dev.Environment (src/dev/env.go): the lifecycle of a local     *)
(* kind cluster - runtime detection, Init (create or reuse, client         *)
(* factory, initializers), Destroy, LoadImageFromTar and RunKindCommand.   *)
(* The kind binary, the file system, the client factory and the            *)
(* initializers are the environment: each of their calls may succeed or    *)
(* fail.  One Environment is driven by one caller at a time, so a public   *)
(* operation starts only when no other is running (pc = "idle").           *)
(***************************************************************************)
EXTENDS Integers, Sequences, FiniteSets, TLC

\* Number of public operations one behaviour performs.
MaxOps == 3

\* len(config.ClusterInitializers).
NumInitializers == 2

NL == "\n"

\* Names of kind clusters, as sequences of characters, in the order
\* "kind get clusters" lists them.
ClusterNames == << <<"a">>, <<"a", "b">>, <<"b", "a">>, <<"b", "a", "b">> >>

\* Names an Environment is constructed with.
EnvNames == { <<"a">>, <<"a", "b">> }

Executables == {"podman", "docker"}
LookPathOutcomes == {"found", "notfound", "error"}

\* ContainerRuntime values a caller configures ("" is the unset value).
ConfigurableRuntimes == {"", "auto", "docker", "podman"}

VARIABLES
    Name,               \* Environment.Name
    WorkDir,            \* Environment.WorkDir
    Cluster,            \* Environment.Cluster: 0 is nil, n > 0 the n-th handle the factory returned
    ContainerRuntime,   \* Environment.config.ContainerRuntime
    pc,                 \* position of the running operation
    op,                 \* the public operation running, or the last one that ran
    ret,                \* its result: "running", "nil" or "err"
    kindConfig,         \* Init's local kindConfig
    checkOutput,        \* Init's local checkOutput, as a string
    createCluster,      \* Init's local createCluster
    cluster,            \* Init's local cluster
    idx,                \* index of the initializer the range loop is at
    lookPath,           \* host: outcome of exec.LookPath per executable
    dm0,                \* host: /dev/dm-0 exists
    dirExists,          \* file system: WorkDir exists
    kindYaml,           \* file system: content of WorkDir/kind.yaml (<<>> when absent)
    clusters,           \* kind: the clusters that exist
    handles,            \* number of handles the factory has returned
    ops,                \* number of public operations started
    trace,              \* the steps of the running (or last) operation, in order
    configured,         \* ContainerRuntime as left by NewEnvironment
    detectCalls,        \* number of DetectContainerRuntime calls
    lastDetect,         \* result of the last DetectContainerRuntime call
    createdBy,          \* number of the operation that created the cluster (0: none, or deleted since)
    applied,            \* per initializer, successful runs since the cluster was created
    lifecycle           \* "inited": the last Init returned nil; "destroyed": Destroy succeeded
                        \* after that; "recreated": the Init after that returned nil

envVars == <<Name, WorkDir, Cluster, ContainerRuntime>>
ctlVars == <<pc, op, ret>>
localVars == <<kindConfig, checkOutput, createCluster, cluster, idx>>
hostVars == <<lookPath, dm0>>
fsVars == <<dirExists, kindYaml>>
histVars == <<configured, detectCalls, lastDetect, createdBy, applied>>
vars == <<envVars, ctlVars, localVars, hostVars, fsVars, clusters, handles, ops,
          trace, histVars, lifecycle>>

----------------------------------------------------------------------------
\* Strings

\* strings.Contains(s, sub)
Contains(s, sub) ==
    \E i \in 0..(Len(s) - Len(sub)) : SubSeq(s, i + 1, i + Len(sub)) = sub

RECURSIVE Join(_, _)
\* The output of "kind get clusters": each existing cluster's name on a line.
Join(names, existing) ==
    IF names = <<>> THEN <<>>
    ELSE (IF Head(names) \in existing THEN Head(names) \o <<NL>> ELSE <<>>)
         \o Join(Tail(names), existing)

GetClustersOutput(existing) == Join(ClusterNames, existing)

----------------------------------------------------------------------------
\* Pure parts of the code

\* EnvironmentConfig.Default, for the ContainerRuntime field.
Default(cr) == IF cr = "" THEN "auto" ELSE cr

\* Variant: a failed podman lookup falls through to docker whatever its cause.
DetectFallingThrough(look) ==
    IF look["podman"] = "found"
    THEN [cr |-> "podman", err |-> "nil", probed |-> <<"podman">>]
    ELSE IF look["docker"] = "found"
    THEN [cr |-> "docker", err |-> "nil", probed |-> <<"podman", "docker">>]
    ELSE [cr |-> "", err |-> "could not detect container runtime",
          probed |-> <<"podman", "docker">>]

\* DetectContainerRuntime: the runtime returned, the error, and the
\* executables looked up, in order.
DetectContainerRuntime(look) ==
    IF look["podman"] = "found"
    THEN [cr |-> "podman", err |-> "nil", probed |-> <<"podman">>]
    ELSE IF look["podman"] # "notfound"
    THEN [cr |-> "", err |-> "looking up podman executable", probed |-> <<"podman">>]
    ELSE IF look["docker"] = "found"
    THEN [cr |-> "docker", err |-> "nil", probed |-> <<"podman", "docker">>]
    ELSE IF look["docker"] # "notfound"
    THEN [cr |-> "", err |-> "looking up docker executable",
          probed |-> <<"podman", "docker">>]
    ELSE [cr |-> "", err |-> "could not detect container runtime",
          probed |-> <<"podman", "docker">>]

\* Variant: detection on every call.
SetContainerRuntimeAlways(cr, look) ==
    LET d == DetectContainerRuntime(look)
    IN [cr |-> IF d.err # "nil" THEN cr ELSE d.cr, err |-> d.err, detected |-> TRUE]

\* setContainerRuntime: the new config.ContainerRuntime, the error, and
\* whether detection was performed.
SetContainerRuntime(cr, look) ==
    IF cr = "auto"
    THEN LET d == DetectContainerRuntime(look)
         IN [cr |-> IF d.err # "nil" THEN cr ELSE d.cr, err |-> d.err,
             detected |-> TRUE]
    ELSE [cr |-> cr, err |-> "nil", detected |-> FALSE]

\* The lines kindConfig starts with.
KindConfigHeader ==
    << "kind: Cluster",
       "apiVersion: kind.x-k8s.io/v1alpha4" >>

\* The lines appended when /dev/dm-0 exists.
ExtraMountsStanza ==
    << "nodes:",
       "- role: control-plane",
       "  extraMounts:",
       "    - hostPath: /dev/dm-0",
       "      containerPath: /dev/dm-0",
       "      propagation: HostToContainer" >>

\* Variant: the stanza is never appended.
KindConfigHeaderOnly(dmExists) == KindConfigHeader

\* The topology document Init builds, as its lines.
KindConfig(dmExists) ==
    IF dmExists THEN KindConfigHeader \o ExtraMountsStanza ELSE KindConfigHeader

\* Variant: the variable is added whatever the runtime.
KindCmdEnvAlways(cr) == {"KIND_EXPERIMENTAL_PROVIDER=podman"}

\* The variables execKindCommand adds to os.Environ() for the child.
KindCmdEnv(cr) ==
    IF cr = "podman" THEN {"KIND_EXPERIMENTAL_PROVIDER=podman"} ELSE {}

\* Variant: the query output is ignored.
NeedsCreateAlways(output, name) == TRUE

\* createCluster := !strings.Contains(checkOutput.String(), env.Name+"\n")
NeedsCreate(output, name) == ~Contains(output, name \o <<NL>>)

\* Variant: the detection error is dropped.
AfterSetContainerRuntimeIgnoringErr(err) == "mkdir"

\* Where Init goes after each step ("return": it returns the error).
AfterSetContainerRuntime(err) == IF err # "nil" THEN "return" ELSE "mkdir"

AfterMkdirAll(ok) == IF ~ok THEN "return" ELSE "write"

\* Variant: the error of the config write is dropped.
AfterWriteFileIgnoringErr(ok) == "get"

AfterWriteFile(ok) == IF ~ok THEN "return" ELSE "get"

\* Variant: a failed query is run again.
AfterGetClustersRetrying(ok, create) ==
    IF ~ok THEN "get" ELSE IF create THEN "create" ELSE "newcluster"

AfterGetClusters(ok, create) ==
    IF ~ok THEN "return" ELSE IF create THEN "create" ELSE "newcluster"

\* Variant: the error of "create cluster" is dropped.
AfterCreateClusterIgnoringErr(ok) == "newcluster"

AfterCreateCluster(ok) == IF ~ok THEN "return" ELSE "newcluster"

\* Variant: the initializers run on reuse too.
AfterNewClusterAlwaysInitializing(ok, create) ==
    IF ~ok THEN "return"
    ELSE IF NumInitializers > 0 THEN "initializers" ELSE "done"

\* Variant: the test of createCluster is inverted.
AfterNewClusterInverted(ok, create) ==
    IF ~ok THEN "return"
    ELSE IF ~create /\ NumInitializers > 0 THEN "initializers" ELSE "done"

\* "done": Init returns nil.
AfterNewCluster(ok, create) ==
    IF ~ok THEN "return"
    ELSE IF create /\ NumInitializers > 0 THEN "initializers" ELSE "done"

\* Variant: the loop goes on after a failed initializer.
AfterInitializerNoAbort(ok, i) ==
    IF i < NumInitializers THEN "initializers" ELSE IF ok THEN "done" ELSE "return"

AfterInitializer(ok, i) ==
    IF ~ok THEN "return"
    ELSE IF i < NumInitializers THEN "initializers" ELSE "done"

\* Variant: a handle already held is kept.
AssignClusterOnce(old, new) == IF old # 0 THEN old ELSE new

\* env.Cluster = cluster
AssignCluster(old, new) == new

\* Variant: the assignment precedes the test of err.
ClusterAssignedBeforeErrCheck(old, new, ok) == AssignCluster(old, new)

\* env.Cluster after the factory returned (new, err): assigned past the
\* return on err.
ClusterAfterNewCluster(old, new, ok) ==
    IF ~ok THEN old ELSE AssignCluster(old, new)

----------------------------------------------------------------------------
\* Steps recorded in trace

Event(step, ok, arg) ==
    [step |-> step, ok |-> ok, arg |-> arg, cr |-> ContainerRuntime, env |-> {},
     killed |-> FALSE]

\* Variant: the child is started without the ctx (exec.Command).
RunResultIgnoringCtx(done, exits) == exits

\* kindCmd.Run() of a command made by exec.CommandContext(ctx, ...): with
\* the ctx done the child is not started, or is killed, and Run returns an
\* error; otherwise the result is the child's own (exits: it exits with 0).
RunResult(done, exits) == IF done THEN FALSE ELSE exits

\* execKindCommand: the child runs with the runtime as it is at that moment;
\* done (recorded as killed): the caller cancelled the ctx, or its deadline
\* passed, before the child completed.
ExecKindCommand(cmd, ok, done) ==
    [step |-> cmd, ok |-> ok, arg |-> 0, cr |-> ContainerRuntime,
     env |-> KindCmdEnv(ContainerRuntime), killed |-> done]

KindCommands == {"get", "create", "delete", "load", "run"}

\* pc, ret after a step of Init whose continuation is next.
Goto(next) ==
    /\ pc' = IF next \in {"return", "done"} THEN "idle" ELSE next
    /\ ret' = IF next = "return" THEN "err" ELSE IF next = "done" THEN "nil" ELSE "running"
    /\ lifecycle' = IF next = "return" THEN "none"
                    ELSE IF next # "done" THEN lifecycle
                    ELSE IF lifecycle = "destroyed" THEN "recreated" ELSE "inited"

----------------------------------------------------------------------------
Init ==
    /\ Name \in EnvNames
    /\ WorkDir = "workdir"
    /\ Cluster = 0
    /\ configured \in {Default(cr) : cr \in ConfigurableRuntimes}
    /\ ContainerRuntime = configured
    /\ pc = "idle" /\ op = "none" /\ ret = "nil"
    /\ kindConfig = <<>> /\ checkOutput = <<>> /\ createCluster = FALSE
    /\ cluster = 0 /\ idx = 0
    /\ lookPath \in [Executables -> LookPathOutcomes]
    \* Only detection reads the lookups: one host stands for all of them
    \* when the runtime is configured explicitly.
    /\ configured # "auto" => \A e \in Executables : lookPath[e] = "found"
    /\ dm0 \in BOOLEAN
    /\ dirExists \in BOOLEAN
    /\ kindYaml = <<>>
    /\ clusters \in SUBSET {ClusterNames[i] : i \in 1..Len(ClusterNames)}
    /\ handles = 0 /\ ops = 0 /\ trace = <<>>
    /\ detectCalls = 0
    /\ lastDetect = [cr |-> "", err |-> "none", probed |-> <<>>]
    /\ createdBy = 0
    /\ applied = [i \in 1..NumInitializers |-> 0]
    /\ lifecycle = "none"

\* Environment.Init up to the topology document (setContainerRuntime, Lstat).
InitSetContainerRuntime ==
    /\ pc = "idle" /\ ops < MaxOps
    /\ LET r == SetContainerRuntime(ContainerRuntime, lookPath)
       IN /\ ContainerRuntime' = r.cr
          /\ trace' = IF r.detected
                      THEN <<Event("detect", r.err = "nil", 0)>> ELSE <<>>
          /\ detectCalls' = IF r.detected THEN detectCalls + 1 ELSE detectCalls
          /\ lastDetect' = IF r.detected THEN DetectContainerRuntime(lookPath)
                           ELSE lastDetect
          /\ Goto(AfterSetContainerRuntime(r.err))
          /\ kindConfig' = IF AfterSetContainerRuntime(r.err) = "return"
                           THEN kindConfig ELSE KindConfig(dm0)
    /\ op' = "Init" /\ ops' = ops + 1
    /\ UNCHANGED <<Name, WorkDir, Cluster, checkOutput, createCluster, cluster, idx,
                   hostVars, fsVars, clusters, handles, configured, createdBy, applied>>

\* os.MkdirAll(env.WorkDir, os.ModePerm)
InitMkdirAll ==
    /\ pc = "mkdir"
    /\ \E ok \in BOOLEAN :
          /\ dirExists' = (dirExists \/ ok)
          /\ trace' = Append(trace, Event("mkdir", ok, 0))
          /\ Goto(AfterMkdirAll(ok))
    /\ UNCHANGED <<envVars, op, localVars, hostVars, kindYaml, clusters,
                   handles, ops, histVars>>

\* ioutil.WriteFile(kindconfigPath, kindConfig, os.ModePerm)
InitWriteFile ==
    /\ pc = "write"
    /\ \E ok \in BOOLEAN :
          /\ kindYaml' = IF ok THEN kindConfig ELSE kindYaml
          /\ trace' = Append(trace, Event("write", ok, 0))
          /\ Goto(AfterWriteFile(ok))
    /\ UNCHANGED <<envVars, op, localVars, hostVars, dirExists, clusters,
                   handles, ops, histVars>>

\* kind get clusters, and the create-or-reuse decision.
InitGetClusters ==
    /\ pc = "get"
    /\ \E done, exits \in BOOLEAN :
          LET ok == RunResult(done, exits)
              out == IF ok THEN GetClustersOutput(clusters) ELSE <<>>
              create == NeedsCreate(out, Name)
          IN /\ checkOutput' = out
             /\ createCluster' = IF ok THEN create ELSE createCluster
             /\ trace' = Append(trace, ExecKindCommand("get", ok, done))
             /\ Goto(AfterGetClusters(ok, create))
    /\ UNCHANGED <<envVars, op, kindConfig, cluster, idx, hostVars, fsVars, clusters,
                   handles, ops, histVars>>

\* kind create cluster --kubeconfig=... --name=env.Name --config=...
InitCreateCluster ==
    /\ pc = "create"
    /\ \E done, exits \in BOOLEAN :
          LET ok == RunResult(done, exits)
          IN /\ clusters' = IF ok THEN clusters \cup {Name} ELSE clusters
             /\ createdBy' = IF ok THEN ops ELSE createdBy
             /\ applied' = IF ok THEN [i \in 1..NumInitializers |-> 0] ELSE applied
             /\ trace' = Append(trace, ExecKindCommand("create", ok, done))
             /\ Goto(AfterCreateCluster(ok))
    /\ UNCHANGED <<envVars, op, localVars, hostVars, fsVars, handles, ops,
                   configured, detectCalls, lastDetect>>

\* env.config.NewCluster(...), and env.Cluster = cluster
InitNewCluster ==
    /\ pc = "newcluster"
    /\ \E ok \in BOOLEAN :
          LET next == AfterNewCluster(ok, createCluster)
          IN /\ handles' = IF ok THEN handles + 1 ELSE handles
             /\ cluster' = IF ok THEN handles + 1 ELSE 0
             /\ Cluster' = ClusterAfterNewCluster(Cluster, cluster', ok)
             /\ idx' = IF next = "initializers" THEN 1 ELSE idx
             /\ trace' = Append(trace, Event("factory", ok, cluster'))
             /\ Goto(next)
    /\ UNCHANGED <<Name, WorkDir, ContainerRuntime, op, kindConfig, checkOutput,
                   createCluster, hostVars, fsVars, clusters, ops, histVars>>

\* One iteration of the range loop: initializer.Init(ctx, cluster)
InitRunInitializer ==
    /\ pc = "initializers"
    /\ \E ok \in BOOLEAN :
          LET next == AfterInitializer(ok, idx)
          IN /\ applied' = IF ok THEN [applied EXCEPT ![idx] = @ + 1] ELSE applied
             /\ idx' = IF next = "initializers" THEN idx + 1 ELSE idx
             /\ trace' = Append(trace, Event("init", ok, idx))
             /\ Goto(next)
    /\ UNCHANGED <<envVars, op, kindConfig, checkOutput, createCluster,
                   cluster, hostVars, fsVars, clusters, handles, ops,
                   configured, detectCalls, lastDetect, createdBy>>

\* Variant: Destroy drops the handle once the cluster is deleted.
DestroyClearingCluster ==
    /\ pc = "idle" /\ ops < MaxOps
    /\ \E done, exits \in BOOLEAN :
          LET ok == RunResult(done, exits)
          IN /\ clusters' = IF ok THEN clusters \ {Name} ELSE clusters
             /\ createdBy' = IF ok THEN 0 ELSE createdBy
             /\ trace' = <<ExecKindCommand("delete", ok, done)>>
             /\ lifecycle' = IF ok /\ lifecycle \in {"inited", "recreated"} THEN "destroyed"
                             ELSE IF ok THEN "none" ELSE lifecycle
             /\ ret' = IF ok THEN "nil" ELSE "err"
             /\ Cluster' = IF ok THEN 0 ELSE Cluster
    /\ op' = "Destroy" /\ ops' = ops + 1
    /\ UNCHANGED <<Name, WorkDir, ContainerRuntime, pc, localVars, hostVars, fsVars,
                   handles, configured, detectCalls, lastDetect, applied>>

\* Environment.Destroy: kind delete cluster --kubeconfig=... --name=env.Name
Destroy ==
    /\ pc = "idle" /\ ops < MaxOps
    /\ \E done, exits \in BOOLEAN :
          LET ok == RunResult(done, exits)
          IN /\ clusters' = IF ok THEN clusters \ {Name} ELSE clusters
             /\ createdBy' = IF ok THEN 0 ELSE createdBy
             /\ trace' = <<ExecKindCommand("delete", ok, done)>>
             /\ lifecycle' = IF ok /\ lifecycle \in {"inited", "recreated"} THEN "destroyed"
                             ELSE IF ok THEN "none" ELSE lifecycle
             /\ ret' = IF ok THEN "nil" ELSE "err"
    /\ op' = "Destroy" /\ ops' = ops + 1
    /\ UNCHANGED <<envVars, pc, localVars, hostVars, fsVars, handles,
                   configured, detectCalls, lastDetect, applied>>

\* Environment.LoadImageFromTar: kind load image-archive filePath --name=env.Name
LoadImageFromTar ==
    /\ pc = "idle" /\ ops < MaxOps
    /\ \E done, exits \in BOOLEAN :
          LET ok == RunResult(done, exits)
          IN /\ trace' = <<ExecKindCommand("load", ok, done)>>
             /\ ret' = IF ok THEN "nil" ELSE "err"
    /\ op' = "LoadImageFromTar" /\ ops' = ops + 1
    /\ UNCHANGED <<envVars, pc, localVars, hostVars, fsVars, clusters, handles,
                   histVars, lifecycle>>

\* Environment.RunKindCommand with arguments that change no cluster
\* (diagnostics such as "version" or "get nodes").
RunKindCommand ==
    /\ pc = "idle" /\ ops < MaxOps
    /\ \E done, exits \in BOOLEAN :
          LET ok == RunResult(done, exits)
          IN /\ trace' = <<ExecKindCommand("run", ok, done)>>
             /\ ret' = IF ok THEN "nil" ELSE "err"
    /\ op' = "RunKindCommand" /\ ops' = ops + 1
    /\ UNCHANGED <<envVars, pc, localVars, hostVars, fsVars, clusters, handles,
                   histVars, lifecycle>>

Next ==
    \/ InitSetContainerRuntime
    \/ InitMkdirAll
    \/ InitWriteFile
    \/ InitGetClusters
    \/ InitCreateCluster
    \/ InitNewCluster
    \/ InitRunInitializer
    \/ Destroy
    \/ LoadImageFromTar
    \/ RunKindCommand

Spec == Init /\ [][Next]_vars

----------------------------------------------------------------------------
\* Vocabulary of the properties

RECURSIVE Lines(_)
\* The newline-terminated lines of s.
Lines(s) ==
    IF \A i \in 1..Len(s) : s[i] # NL THEN {}
    ELSE LET n == CHOOSE i \in 1..Len(s) :
                      s[i] = NL /\ \A j \in 1..(i - 1) : s[j] # NL
         IN {SubSeq(s, 1, n - 1)} \cup Lines(SubSeq(s, n + 1, Len(s)))

\* The running (or last) operation has performed step s / performed it with success.
Did(s) == \E k \in 1..Len(trace) : trace[k].step = s
DidOk(s) == \E k \in 1..Len(trace) : trace[k].step = s /\ trace[k].ok

\* This step performs step s.
Issues(s) == trace' # trace /\ trace' # <<>> /\ trace'[Len(trace')].step = s

\* The initializer invocations of the running (or last) operation, in order.
InitializerRuns == SelectSeq(trace, LAMBDA e : e.step = "init")

\* Init has queried the clusters in this call, so checkOutput and
\* createCluster are those of this call.
Queried == op = "Init" /\ DidOk("get")

Returned(o, r) == op = o /\ pc = "idle" /\ ret = r

----------------------------------------------------------------------------
\* C1: an initializer is invoked only in an Init call that issued "create
\* cluster" before it, with success; a call whose query listed the
\* environment's name as a line invokes no initializer.
InitializersOnlyAfterCreate ==
    /\ \A k \in 1..Len(trace) :
          trace[k].step = "init" =>
             /\ op = "Init"
             /\ \E j \in 1..(k - 1) : trace[j].step = "create" /\ trace[j].ok
    /\ (Queried /\ Name \in Lines(checkOutput)) => ~Did("init") /\ ~Did("create")

InitializerRanAfterCreate ==
    /\ op = "Init" /\ DidOk("create")
    /\ \E k \in 1..Len(trace) : trace[k].step = "init" /\ trace[k].ok

\* C2 (as amended): once an Init call has created the cluster, no later
\* operation before a Destroy issues "create cluster" or runs an initializer,
\* and each initializer has been applied to the cluster at most once.
IdempotentInit ==
    /\ [](\A i \in 1..NumInitializers : createdBy # 0 => applied[i] <= 1)
    /\ [][(createdBy # 0 /\ ops # createdBy)
             => ~Issues("create") /\ ~Issues("init")]_vars

\* A later Init has reused the cluster this Environment created.
ReInitReusedCluster ==
    /\ createdBy # 0 /\ ops > createdBy
    /\ Returned("Init", "nil") /\ ~Did("create") /\ ~Did("init")
    /\ \A i \in 1..NumInitializers : applied[i] = 1

\* C2 (as stated): once the cluster is created, every initializer's effect
\* has been applied to it exactly once whenever no call is running.
AppliedExactlyOnce ==
    (createdBy # 0 /\ pc = "idle") => \A i \in 1..NumInitializers : applied[i] = 1

\* C3 (as stated): Init decides reuse if and only if the environment's name
\* is equal to a whole line of the query output, and issues "create cluster"
\* otherwise.
ExactNameMatching ==
    Queried =>
       /\ createCluster <=> (Name \notin Lines(checkOutput))
       /\ (Name \notin Lines(checkOutput) /\ trace[Len(trace)].step = "get")
             => pc = "create"

\* C4: the initializers run in list order, each at most once, the next one
\* only after the previous one succeeded; a failing initializer is the last
\* step of Init, which returns an error; the earlier effects remain.
InitializerOrdering ==
    LET runs == InitializerRuns
    IN /\ \A k \in 1..Len(runs) : runs[k].arg = k
       /\ \A k \in 1..(Len(runs) - 1) : runs[k].ok
       /\ \A k \in 1..Len(trace) :
             (trace[k].step = "init" /\ ~trace[k].ok) =>
                k = Len(trace) /\ Returned("Init", "err")
       /\ \A k \in 1..Len(runs) : runs[k].ok => applied[runs[k].arg] >= 1

\* The second initializer failed after the first one succeeded.
SecondInitializerFailed ==
    /\ Len(InitializerRuns) = 2
    /\ InitializerRuns[1].ok /\ ~InitializerRuns[2].ok
    /\ applied[1] = 1 /\ Returned("Init", "err")

\* C5 (as stated): on an Environment constructed with the runtime unset or
\* "auto", every kind command runs with the runtime resolved.
CommandsRunResolved ==
    configured = "auto" =>
       \A k \in 1..Len(trace) :
          trace[k].step \in KindCommands => trace[k].cr \in {"docker", "podman"}

\* C6: detection is performed only while the runtime is "auto"; a resolved
\* runtime is never detected again nor changed; an explicitly configured
\* runtime is never detected; a failed detection leaves "auto", a successful
\* one stores the detected value.
RuntimeResolvedOnce ==
    /\ [](configured # "auto" => detectCalls = 0 /\ ContainerRuntime = configured)
    /\ [][/\ detectCalls' # detectCalls => ContainerRuntime = "auto"
          /\ ContainerRuntime # "auto" =>
                ContainerRuntime' = ContainerRuntime /\ detectCalls' = detectCalls
          /\ (detectCalls' # detectCalls /\ lastDetect'.err # "nil") =>
                ContainerRuntime' = "auto"
          /\ (detectCalls' # detectCalls /\ lastDetect'.err = "nil") =>
                ContainerRuntime' = lastDetect'.cr]_vars

\* Two operations have run since the one detection.
DetectedOnceThenReused ==
    /\ configured = "auto" /\ ContainerRuntime \in {"docker", "podman"}
    /\ detectCalls = 1 /\ ops = 3 /\ op = "Init"

\* C7: the result of a detection, by the outcomes of the two lookups.
DetectionTable ==
    lastDetect.err # "none" =>
       LET p == lookPath["podman"]
           d == lookPath["docker"]
       IN /\ lastDetect.probed[1] = "podman"
          /\ p = "found" => lastDetect.cr = "podman" /\ lastDetect.err = "nil"
          /\ (Len(lastDetect.probed) = 2) <=> (p = "notfound")
          /\ Len(lastDetect.probed) = 2 => lastDetect.probed[2] = "docker"
          /\ p = "error" => lastDetect.cr = "" /\ lastDetect.err # "nil"
          /\ (p = "notfound" /\ d = "found") =>
                lastDetect.cr = "docker" /\ lastDetect.err = "nil"
          /\ (p = "notfound" /\ d = "error") =>
                lastDetect.cr = "" /\ lastDetect.err # "nil"
          /\ (p = "notfound" /\ d = "notfound") =>
                /\ lastDetect.cr = ""
                /\ lastDetect.err = "could not detect container runtime"

\* Both runtimes are on the path and detection ran.
DetectedWithBothAvailable ==
    /\ lookPath["podman"] = "found" /\ lookPath["docker"] = "found"
    /\ lastDetect.err = "nil" /\ lastDetect.cr = "podman"
    /\ ContainerRuntime = "podman"

\* C8: a failed step of Init is its last step and Init returns an error;
\* Init never issues "delete cluster", and what its steps did stays done.
FailFastInit ==
    op = "Init" =>
       /\ \A k \in 1..Len(trace) :
             ~trace[k].ok => k = Len(trace) /\ Returned("Init", "err")
       /\ ~Did("delete")
       /\ DidOk("mkdir") => dirExists
       /\ DidOk("write") => kindYaml = kindConfig
       /\ DidOk("create") => Name \in clusters

\* The factory failed after the cluster was created.
FactoryFailedAfterCreate ==
    /\ Returned("Init", "err") /\ DidOk("create")
    /\ trace[Len(trace)].step = "factory" /\ ~trace[Len(trace)].ok
    /\ Name \in clusters /\ dirExists /\ kindYaml # <<>>

\* C9: when detection fails, Init returns the error having done nothing else.
DetectionFailureAborts ==
    (op = "Init" /\ Did("detect") /\ ~DidOk("detect")) =>
       /\ Len(trace) = 1
       /\ Returned("Init", "err")
       /\ ContainerRuntime = "auto"

DetectionFailed ==
    /\ Returned("Init", "err") /\ trace = <<Event("detect", FALSE, 0)>>
    /\ lookPath["podman"] = "notfound" /\ lookPath["docker"] = "notfound"

\* C10: when Init returns nil, env.Cluster is the handle the factory
\* returned in this call.
ClusterIsThisCallsHandle ==
    Returned("Init", "nil") =>
       /\ Cluster # 0
       /\ \E k \in 1..Len(trace) :
             trace[k].step = "factory" /\ trace[k].ok /\ trace[k].arg = Cluster

\* A second Init succeeded and holds the second handle.
SecondInitHoldsNewHandle ==
    Returned("Init", "nil") /\ handles = 2 /\ Cluster = 2

\* Position of a step in Init's statement order.
Rank(step) ==
    CASE step = "detect" -> 1
      [] step = "mkdir" -> 2
      [] step = "write" -> 3
      [] step = "get" -> 4
      [] step = "create" -> 5
      [] step = "factory" -> 6
      [] step = "init" -> 7
      [] OTHER -> 0

\* Step s was performed with success before position k of trace.
OkBefore(s, k) == \E j \in 1..(k - 1) : trace[j].step = s /\ trace[j].ok

\* C11: the steps of one Init call follow the order runtime resolution,
\* work directory, config write, query, create, factory, initializers; the
\* runtime is resolved before any of them, the config is written only into
\* an existing work directory and is on disk when "create cluster" names it.
InitStepOrder ==
    op = "Init" =>
       /\ \A j, k \in 1..Len(trace) :
             j < k => \/ Rank(trace[j].step) < Rank(trace[k].step)
                      \/ trace[j].step = "init" /\ trace[k].step = "init"
       /\ \A k \in 1..Len(trace) :
             /\ Rank(trace[k].step) \in 1..7
             /\ trace[k].step # "detect" => trace[k].cr \in {"docker", "podman"}
             /\ trace[k].step = "write" => OkBefore("mkdir", k) /\ dirExists
             /\ trace[k].step = "get" => OkBefore("write", k)
             /\ trace[k].step = "create" =>
                   OkBefore("get", k) /\ OkBefore("write", k) /\ kindYaml = kindConfig
             /\ trace[k].step = "factory" => OkBefore("get", k)
             /\ trace[k].step = "init" => OkBefore("factory", k)

\* An Init call went through every step, detection included.
InitWentThroughAllSteps ==
    /\ Returned("Init", "nil")
    /\ Len(trace) = 6 + NumInitializers
    /\ trace[1].step = "detect" /\ trace[5].step = "create"

\* C12: a child process gets KIND_EXPERIMENTAL_PROVIDER=podman if and only
\* if the runtime is "podman" when it is started.
ProviderVariableIffPodman ==
    \A k \in 1..Len(trace) :
       trace[k].step \in KindCommands =>
          /\ ("KIND_EXPERIMENTAL_PROVIDER=podman" \in trace[k].env)
                <=> (trace[k].cr = "podman")
          /\ trace[k].cr = "docker" => trace[k].env = {}

\* Destroy ran under podman, with the variable.
DestroyRanUnderPodman ==
    /\ Returned("Destroy", "nil")
    /\ trace[1].cr = "podman"
    /\ trace[1].env = {"KIND_EXPERIMENTAL_PROVIDER=podman"}

\* Number of times the running (or last) operation performed step s.
Count(s) == Cardinality({k \in 1..Len(trace) : trace[k].step = s})

\* C13: one call runs each of its kind commands at most once (Destroy,
\* LoadImageFromTar and RunKindCommand: exactly one command); a failed
\* command is the call's last step and the call returns an error.
NoRetry ==
    /\ \A s \in KindCommands : Count(s) <= 1
    /\ op = "Init" => \A k \in 1..Len(trace) : trace[k].step \notin {"delete", "load", "run"}
    /\ op = "Destroy" => Len(trace) = 1 /\ trace[1].step = "delete"
    /\ op = "LoadImageFromTar" => Len(trace) = 1 /\ trace[1].step = "load"
    /\ op = "RunKindCommand" => Len(trace) = 1 /\ trace[1].step = "run"
    /\ \A k \in 1..Len(trace) :
          (trace[k].step \in KindCommands /\ ~trace[k].ok) =>
             k = Len(trace) /\ pc = "idle" /\ ret = "err"

\* The query of an Init call failed.
QueryFailed ==
    /\ Returned("Init", "err")
    /\ trace[Len(trace)].step = "get" /\ ~trace[Len(trace)].ok

\* C14: Destroy, successful or failed, changes neither the handle, the name,
\* the work directory nor the configured runtime.
DestroyKeepsEnvironment ==
    [][(op' = "Destroy" /\ ops' # ops) => UNCHANGED envVars]_vars

\* Destroy succeeded on an initialized Environment, which still holds its handle.
DestroyedWithHandleHeld ==
    /\ Returned("Destroy", "nil") /\ Cluster # 0
    /\ ContainerRuntime \in {"docker", "podman"} /\ Name \notin clusters

\* C15: a command whose ctx is cancelled or expires before it completes
\* returns an error; it is the last step of its operation, which returns an
\* error; what the earlier steps did stays done.
CancellationAborts ==
    /\ \A k \in 1..Len(trace) :
          trace[k].killed =>
             /\ trace[k].step \in KindCommands /\ ~trace[k].ok
             /\ k = Len(trace) /\ pc = "idle" /\ ret = "err"
    /\ (op = "Init" /\ trace # <<>> /\ trace[Len(trace)].killed) =>
          /\ DidOk("mkdir") => dirExists
          /\ DidOk("write") => kindYaml = kindConfig
          /\ DidOk("create") => Name \in clusters

\* "create cluster" was killed after the work directory and the config were written.
CreateKilled ==
    /\ Returned("Init", "err")
    /\ trace[Len(trace)].step = "create" /\ trace[Len(trace)].killed
    /\ dirExists /\ kindYaml = kindConfig /\ kindYaml # <<>>

\* C16: the document in kind.yaml is the two-line header when /dev/dm-0 does
\* not exist and the header followed by the control-plane extra-mount stanza
\* when it exists, whatever the name, the runtime and the clusters; every
\* Init that writes it writes this document.
TopologyConfigContent ==
    LET header == kindYaml[1] = "kind: Cluster"
                  /\ kindYaml[2] = "apiVersion: kind.x-k8s.io/v1alpha4"
    IN /\ (kindYaml # <<>> /\ ~dm0) => Len(kindYaml) = 2 /\ header
       /\ (kindYaml # <<>> /\ dm0) =>
             /\ Len(kindYaml) = 8 /\ header
             /\ kindYaml[3] = "nodes:"
             /\ kindYaml[4] = "- role: control-plane"
             /\ kindYaml[5] = "  extraMounts:"
             /\ kindYaml[6] = "    - hostPath: /dev/dm-0"
             /\ kindYaml[7] = "      containerPath: /dev/dm-0"
             /\ kindYaml[8] = "      propagation: HostToContainer"
       /\ (op = "Init" /\ DidOk("write")) => kindYaml # <<>> /\ kindYaml = kindConfig

\* A second Init rewrote the document on a host with /dev/dm-0.
ConfigRewrittenWithMounts ==
    /\ dm0 /\ ops = 2 /\ op = "Init" /\ DidOk("write") /\ Len(kindYaml) = 8
    /\ createdBy = 1 /\ ~createCluster /\ Queried

\* C17 (as amended): when an Init call that itself created the cluster
\* returns nil, every initializer has completed on that cluster, once, in
\* that call; an Init call that reuses the cluster returns nil without
\* running any initializer.
CreatingInitCompletesInitializers ==
    /\ (Returned("Init", "nil") /\ DidOk("create")) =>
          /\ Len(InitializerRuns) = NumInitializers
          /\ \A i \in 1..NumInitializers : InitializerRuns[i].ok /\ applied[i] = 1
    /\ (Returned("Init", "nil") /\ ~Did("create")) => ~Did("init")

\* After a failed Init and a Destroy, a new Init created and initialized the cluster.
RecoveredByDestroyAndInit ==
    /\ Returned("Init", "nil") /\ DidOk("create") /\ ops = 3 /\ handles = 1
    /\ \A i \in 1..NumInitializers : applied[i] = 1

\* C17 (as stated): whenever Init returns nil, every initializer has
\* completed on the cluster this Environment created, since its creation.
SuccessMeansInitialized ==
    (Returned("Init", "nil") /\ createdBy # 0) =>
       \A i \in 1..NumInitializers : applied[i] >= 1

\* C18: env.Cluster changes only when the factory returns success in Init,
\* to the handle returned; an Init that fails in the initializer chain
\* returns with env.Cluster set to the handle of this call.
ClusterAssignedOnlyAfterFactory ==
    /\ [][Cluster' # Cluster =>
             /\ pc = "newcluster" /\ Issues("factory")
             /\ trace'[Len(trace')].ok
             /\ Cluster' = trace'[Len(trace')].arg /\ Cluster' # 0]_vars
    /\ []((Returned("Init", "err") /\ Did("init")) =>
             /\ Cluster # 0
             /\ \E k \in 1..Len(trace) :
                   trace[k].step = "factory" /\ trace[k].ok /\ trace[k].arg = Cluster)

\* The factory failed in a later Init, which left the earlier handle in place.
FactoryFailedKeepingHandle ==
    /\ Returned("Init", "err") /\ trace[Len(trace)].step = "factory"
    /\ Cluster = 1 /\ handles = 1 /\ ops >= 2

\* C19 (as stated): the Init that follows a successful Init and a successful
\* Destroy issues "create cluster" again, and when it returns nil it has run
\* the whole initializer chain.
RecreatedAfterTeardown ==
    /\ (lifecycle = "destroyed" /\ Queried /\ trace[Len(trace)].step = "get") =>
          createCluster /\ pc = "create"
    /\ (lifecycle = "recreated" /\ Returned("Init", "nil")) =>
          DidOk("create") /\ Len(InitializerRuns) = NumInitializers

====
